---- MODULE Spec2Model ----
(***************************************************************************)
(* A model of the Pryv light JavaScript library: the Connection class      *)
(* (src/src/Connection.js) and the Service class (src/unnamed/part_001,    *)
(* lines 95-258).                                                          *)
(*                                                                         *)
(* JavaScript runs one callback at a time.  A step of the model is what    *)
(* an async method does between two I/O events: from its invocation, or    *)
(* from the completion of the HTTP request it awaits, to the dispatch of   *)
(* its next HTTP request or to its return.                                 *)
(*                                                                         *)
(* Strings that the code takes apart (URLs) are sequences of lexemes:      *)
(* "https://tom.x.io/" is <<"https://", "tom", ".x.io", "/">>.  No lexeme  *)
(* other than "/" and the scheme ends with a slash.  JavaScript numbers    *)
(* are exact rationals <<numerator, denominator>>.                         *)
(***************************************************************************)
EXTENDS Integers, Sequences, FiniteSets, Bags, TLC

VARIABLES
  token,          \* Connection.token
  endpoint,       \* Connection.endpoint
  options,        \* Connection.options: [chunkSize |-> n]
  _deltaTime,     \* Connection._deltaTime: [value |-> rational, weight |-> n]
  apiTask,        \* the invocation of Connection.api() under way
  reqs,           \* bag of the get/post/getRaw/postRaw invocations awaiting their response
  nReq,           \* number of get/post/getRaw/postRaw invocations so far
  lastDone,       \* history: the last request completed, and what became of it
  samples,        \* history: [sum, count] of the samples of the responses accepted
  _pryvServiceInfoUrl,         \* Service._pryvServiceInfoUrl
  _pryvServiceCustomizations,  \* Service._pryvServiceCustomizations
  _pryvServiceInfo,            \* Service._pryvServiceInfo: Null or Some(document)
  infoCalls,      \* the callers' invocations of Service.info(), in invocation order
  loginTask,      \* the invocation of Service.login() under way
  cacheWrites,    \* history: number of assignments to _pryvServiceInfo
  _assets,        \* Service._assets: Null or Some(bundle)
  assetsCalls,    \* the callers' invocations of Service.assets(), in invocation order
  setups          \* history: number of invocations of Assets.setup

connVars == <<token, endpoint, options, _deltaTime, apiTask, reqs, nReq,
              lastDone, samples>>

assetVars == <<_assets, assetsCalls, setups>>

serviceVars == <<_pryvServiceInfoUrl, _pryvServiceCustomizations, _pryvServiceInfo,
                 infoCalls, loginTask, cacheWrites, assetVars>>

vars == <<connVars, serviceVars>>

(***************************************************************************)
(* Bounds of the model.                                                    *)
(***************************************************************************)
MaxCalls == 3       \* longest arrayOfAPICalls
MaxChunk == 2       \* largest chunkSize a caller assigns
MaxRequests == 1    \* get/post/getRaw/postRaw invocations in one behaviour
MaxInfoCalls == 3   \* callers' invocations of Service.info() in one behaviour
MaxAssetsCalls == 3 \* callers' invocations of Service.assets() in one behaviour

(***************************************************************************)
(* JavaScript values.                                                      *)
(***************************************************************************)
Undefined == "undefined"

Truthy(s) == s \notin {Undefined, ""}

\* null or undefined, and a present value, where a variable holds either
Null == <<>>

Some(x) == <<x>>

Abs(n) == IF n < 0 THEN -n ELSE n

Min(a, b) == IF a < b THEN a ELSE b

RECURSIVE GCD(_, _)
GCD(a, b) == IF b = 0 THEN a ELSE GCD(b, a % b)

\* The rational n/d (d # 0) in lowest terms, with a positive denominator.
Rat(n, d) ==
  LET g == GCD(Abs(n), Abs(d))
      s == IF d < 0 THEN -1 ELSE 1
  IN  <<(s * n) \div g, (s * d) \div g>>

JsNumber(v) == [type |-> "number", val |-> v]

JsString(s) == [type |-> "string", val |-> s]

StartsWith(s, prefix) ==
  /\ Len(s) >= Len(prefix)
  /\ SubSeq(s, 1, Len(prefix)) = prefix

\* A slice that leaves out its last element.
SliceShort(s, from, to) == SubSeq(s, from + 1, Min(to - 1, Len(s)))

\* Array.prototype.slice(from, to) on 0-based indices
Slice(s, from, to) == SubSeq(s, from + 1, Min(to, Len(s)))

(***************************************************************************)
(* utils.js: the endpoint codec.  Its source is not in src/; it is         *)
(* modelled from section 4.1 of the specification.                         *)
(***************************************************************************)
EndsWithSlash(s) == Len(s) > 0 /\ s[Len(s)] = "/"

WithTrailingSlash(s) == IF EndsWithSlash(s) THEN s ELSE Append(s, "/")

extractTokenAndApiEndpoint(pryvApiEndpoint) ==
  IF Len(pryvApiEndpoint) >= 3 /\ pryvApiEndpoint[3] = "@"
  THEN [token |-> pryvApiEndpoint[2],
        endpoint |-> WithTrailingSlash(
          <<pryvApiEndpoint[1]>> \o SubSeq(pryvApiEndpoint, 4, Len(pryvApiEndpoint)))]
  ELSE [token |-> Undefined, endpoint |-> WithTrailingSlash(pryvApiEndpoint)]

buildPryvApiEndPoint(tokenAndAPI) ==
  IF Truthy(tokenAndAPI.token)
  THEN WithTrailingSlash(
         <<tokenAndAPI.endpoint[1], tokenAndAPI.token, "@">> \o Tail(tokenAndAPI.endpoint))
  ELSE WithTrailingSlash(tokenAndAPI.endpoint)

(***************************************************************************)
(* Connection                                                              *)
(***************************************************************************)
DefaultChunkSize == 1000

\* new Connection(pryvApiEndpoint): the fields of the new object
Connection(pryvApiEndpoint) ==
  LET te == extractTokenAndApiEndpoint(pryvApiEndpoint)
  IN  [token |-> te.token,
       endpoint |-> te.endpoint,
       options |-> [chunkSize |-> DefaultChunkSize],
       _deltaTime |-> [value |-> <<0, 1>>, weight |-> 0]]

\* get deltaTime()
deltaTime == JsNumber(_deltaTime.value)

\* get apiEndpoint()
apiEndpoint == JsNumber(_deltaTime.value)

NoError == ""
NoMeta == "Cannot find .meta in response."
NoServerTime == "Cannot find .meta.serverTime in response."
TransportError == "TransportError"

\* The two errors of _handleMeta: the specification's MissingMeta.
MissingMeta == {NoMeta, NoServerTime}

\* The mean computed with the weight already incremented.
NextDeltaValueEager(dt, serverTime, requestLocalTimestamp) ==
  Rat(dt.value[1] * (dt.weight + 1) + (serverTime - requestLocalTimestamp) * dt.value[2],
      dt.value[2] * (dt.weight + 1))

\* The value _handleMeta assigns: the operands are read before ++weight.
NextDeltaValue(dt, serverTime, requestLocalTimestamp) ==
  Rat(dt.value[1] * dt.weight + (serverTime - requestLocalTimestamp) * dt.value[2],
      dt.value[2] * (dt.weight + 1))

\* A _handleMeta that counts the response before it looks for meta.serverTime.
HandleMetaCountsFirst(dt, res, requestLocalTimestamp) ==
  IF ~res.hasMeta
  THEN [error |-> NoMeta, deltaTime |-> dt]
  ELSE IF ~res.hasServerTime \/ res.serverTime = 0
  THEN [error |-> NoServerTime, deltaTime |-> [dt EXCEPT !.weight = @ + 1]]
  ELSE [error |-> NoError,
        deltaTime |-> [value |-> NextDeltaValue(dt, res.serverTime, requestLocalTimestamp),
                       weight |-> dt.weight + 1]]

\* _handleMeta(res, requestLocalTimestamp) on the estimate dt: the error thrown,
\* if any, and the estimate afterwards.
HandleMeta(dt, res, requestLocalTimestamp) ==
  IF ~res.hasMeta
  THEN [error |-> NoMeta, deltaTime |-> dt]
  ELSE IF ~res.hasServerTime \/ res.serverTime = 0
  THEN [error |-> NoServerTime, deltaTime |-> dt]
  ELSE [error |-> NoError,
        deltaTime |-> [value |-> NextDeltaValue(dt, res.serverTime, requestLocalTimestamp),
                       weight |-> dt.weight + 1]]

\* What get() and post() do once the raw request has completed with `response`:
\* a rejected raw request rejects them, otherwise _handleMeta decides.
AfterRaw(dt, response, now) ==
  IF ~response.ok
  THEN [error |-> TransportError, deltaTime |-> dt]
  ELSE HandleMeta(dt, response, now)

\* The history of accepted samples.
Sampled(h, out, response, now) ==
  IF out.error = NoError
  THEN [sum |-> h.sum + (response.serverTime - now), count |-> h.count + 1]
  ELSE h

\* The record of a completed request.
Done(kind, response, out) ==
  [kind |-> kind, response |-> response, error |-> out.error]

(***************************************************************************)
(* The environment: the local clock, the server, the callers.              *)
(***************************************************************************)
LocalTimes == {1, 5}

ServerTimes == {0, 3}

\* The transport's outcomes: a failure, or a response whose body may lack meta
\* or meta.serverTime.
Responses ==
  {[ok |-> FALSE, hasMeta |-> FALSE, hasServerTime |-> FALSE, serverTime |-> 0],
   [ok |-> TRUE, hasMeta |-> FALSE, hasServerTime |-> FALSE, serverTime |-> 0],
   [ok |-> TRUE, hasMeta |-> TRUE, hasServerTime |-> FALSE, serverTime |-> 0]}
  \cup {[ok |-> TRUE, hasMeta |-> TRUE, hasServerTime |-> TRUE, serverTime |-> t] :
          t \in ServerTimes}

\* The server's result for one method call, and for a batch: one per call, in order.
ResultOf(call) == <<"result", call>>

ResultsOf(batch) == [i \in 1..Len(batch) |-> ResultOf(batch[i])]

\* The method calls are opaque to the library: call i of an array is named i.
CallArrays == {[i \in 1..n |-> i] : n \in 0..MaxCalls}

PryvApiEndpoints ==
  {<<"https://", "abc", "@", "tom.x.io", "/">>,
   <<"https://", "abc", "@", "tom.x.io">>,
   <<"https://", "tom.x.io", "/">>}

(***************************************************************************)
(* Connection.api()                                                        *)
(***************************************************************************)
NoApi ==
  [pc |-> "idle", calls |-> <<>>, cursor |-> 0, res |-> <<>>, thisBatch |-> <<>>,
   now |-> 0, posts |-> <<>>, answered |-> 0, chunkSize |-> 0, chunkFixed |-> TRUE,
   error |-> NoError]

\* The condition of the for loop of api()
LoopCondition(length, cursor) == length >= cursor

\* A step that skips one call.
NextCursorSkips(cursor, chunkSize) == cursor + chunkSize + 1

\* The step of the for loop: cursor += this.options.chunkSize
NextCursor(cursor, chunkSize) == cursor + chunkSize

\* A loop head that dispatches the post of the next batch along with this one.
ApiLoopEager(a, chunkSize, now) ==
  IF LoopCondition(Len(a.calls), a.cursor)
  THEN LET thisBatch == Slice(a.calls, a.cursor, a.cursor + chunkSize)
           nextBatch == Slice(a.calls, a.cursor + chunkSize, a.cursor + 2 * chunkSize)
       IN  [a EXCEPT !.pc = "await", !.thisBatch = thisBatch, !.now = now,
                     !.posts = @ \o <<thisBatch, nextBatch>>]
  ELSE [a EXCEPT !.pc = "resolved", !.thisBatch = <<>>]

\* The head of the for loop: dispatch the post of the next batch, or return res.
ApiLoop(a, chunkSize, now) ==
  IF LoopCondition(Len(a.calls), a.cursor)
  THEN LET thisBatch == Slice(a.calls, a.cursor, a.cursor + chunkSize)
       IN  [a EXCEPT !.pc = "await", !.thisBatch = thisBatch, !.now = now,
                     !.posts = Append(@, thisBatch)]
  ELSE [a EXCEPT !.pc = "resolved", !.thisBatch = <<>>]

\* An api() that catches the error of a post and returns what it has gathered.
ApiFailedReturns(a, error) == [a EXCEPT !.pc = "resolved", !.error = error]

\* The error thrown by `await this.post` leaves the loop and rejects api().
ApiFailed(a, error) == [a EXCEPT !.pc = "rejected", !.error = error]

\* What the promise of api() is resolved with: res, at `return res`.
ApiReturned == IF apiTask.pc = "resolved" THEN Some(apiTask.res) ELSE Null

\* The chunk requests of api() awaiting their response.
ApiInFlight == Len(apiTask.posts) - apiTask.answered

\* api(arrayOfAPICalls) is invoked and runs to its first await.
ApiCall(arrayOfAPICalls, now) ==
  /\ apiTask.pc = "idle"
  /\ apiTask' = ApiLoop([NoApi EXCEPT !.calls = arrayOfAPICalls,
                                      !.chunkSize = options.chunkSize],
                         options.chunkSize, now)
  /\ UNCHANGED <<token, endpoint, options, _deltaTime, reqs, nReq, lastDone, samples>>
  /\ UNCHANGED serviceVars

\* The post of the batch in flight completes: post() handles the meta, api()
\* appends the results, advances the cursor and runs the loop head again.
ApiResponse(response, now) ==
  /\ apiTask.pc = "await"
  /\ LET out == AfterRaw(_deltaTime, response, apiTask.now)
         got == [apiTask EXCEPT !.answered = @ + 1]
     IN  /\ _deltaTime' = out.deltaTime
         /\ samples' = Sampled(samples, out, response, apiTask.now)
         /\ lastDone' = Done("post", response, out)
         /\ apiTask' =
              IF out.error # NoError
              THEN ApiFailed(got, out.error)
              ELSE ApiLoop([got EXCEPT !.res = @ \o ResultsOf(apiTask.thisBatch),
                                       !.cursor = NextCursor(@, options.chunkSize)],
                           options.chunkSize, now)
  /\ UNCHANGED <<token, endpoint, options, reqs, nReq>>
  /\ UNCHANGED serviceVars

\* The caller assigns conn.options.chunkSize.
SetChunkSize(n) ==
  /\ n # options.chunkSize
  /\ options' = [options EXCEPT !.chunkSize = n]
  /\ apiTask' = IF apiTask.pc = "await"
                THEN [apiTask EXCEPT !.chunkFixed = FALSE]
                ELSE apiTask
  /\ UNCHANGED <<token, endpoint, _deltaTime, reqs, nReq, lastDone, samples>>
  /\ UNCHANGED serviceVars

(***************************************************************************)
(* Connection.get(), post(), getRaw(), postRaw()                           *)
(***************************************************************************)
Kinds == {"get", "post", "getRaw", "postRaw"}

\* No request is raw: getRaw and postRaw handle the meta as get and post do.
RawNever(kind) == FALSE

Raw(kind) == kind \in {"getRaw", "postRaw"}

NoneDone ==
  [kind |-> "none",
   response |-> [ok |-> FALSE, hasMeta |-> FALSE, hasServerTime |-> FALSE, serverTime |-> 0],
   error |-> NoError]

\* get/post read the clock and dispatch the raw request; getRaw/postRaw dispatch it.
Request(kind, now) ==
  /\ nReq < MaxRequests
  /\ nReq' = nReq + 1
  /\ reqs' = reqs (+) SetToBag({[kind |-> kind, now |-> IF Raw(kind) THEN 0 ELSE now]})
  /\ UNCHANGED <<token, endpoint, options, _deltaTime, apiTask, lastDone, samples>>
  /\ UNCHANGED serviceVars

\* The raw request of r completes.
RequestDone(r, response) ==
  /\ BagIn(r, reqs)
  /\ reqs' = reqs (-) SetToBag({r})
  /\ LET out == IF Raw(r.kind)
                THEN [error |-> IF response.ok THEN NoError ELSE TransportError,
                      deltaTime |-> _deltaTime]
                ELSE AfterRaw(_deltaTime, response, r.now)
     IN  /\ _deltaTime' = out.deltaTime
         /\ samples' = IF Raw(r.kind) THEN samples
                       ELSE Sampled(samples, out, response, r.now)
         /\ lastDone' = Done(r.kind, response, out)
  /\ UNCHANGED <<token, endpoint, options, apiTask, nReq>>
  /\ UNCHANGED serviceVars

(***************************************************************************)
(* Properties of Connection.                                               *)
(***************************************************************************)
RECURSIVE Concat(_)
Concat(ss) == IF ss = <<>> THEN <<>> ELSE Head(ss) \o Concat(Tail(ss))

\* Number of requests completed so far: it grows by one in exactly the steps in
\* which a response is handled.
NDone == apiTask.answered + nReq - BagCardinality(reqs)

\* C1: chunk-size transparency.  While options.chunkSize is not assigned during
\* the call, the results api() has gathered are the server's results for a prefix
\* of the calls, in order; when it resolves they are the server's results for all
\* N calls, what one unbounded chunk gives; and it rejects only when a post fails
\* or is answered without meta.serverTime.
ChunkSizeTransparency ==
  /\ apiTask.chunkFixed =>
       /\ Len(apiTask.res) <= Len(apiTask.calls)
       /\ apiTask.res = ResultsOf(SubSeq(apiTask.calls, 1, Len(apiTask.res)))
  /\ (apiTask.pc = "resolved" /\ apiTask.chunkFixed) =>
       /\ Len(apiTask.res) = Len(apiTask.calls)
       /\ apiTask.res = ResultsOf(apiTask.calls)
  /\ apiTask.pc = "rejected" =>
       /\ apiTask.error # NoError
       /\ apiTask.error = lastDone.error

\* Three calls with chunkSize 2 have resolved, in two chunks or more.
ChunkedApiResolved ==
  /\ apiTask.pc = "resolved"
  /\ apiTask.chunkFixed
  /\ apiTask.chunkSize = 2
  /\ Len(apiTask.calls) = 3
  /\ Len(apiTask.res) = 3

\* C2: chunk partition.  While options.chunkSize is not assigned during the call,
\* the bodies posted so far are contiguous slices of the calls in order: none is
\* longer than chunkSize, all but the last have chunkSize elements, their
\* concatenation is a prefix of the calls and, once api() has resolved, all of
\* them; api([c1, c2, c3]) with chunkSize 2 posts [c1, c2] and [c3] and no more.
ChunkPartition ==
  apiTask.chunkFixed =>
    LET posts == apiTask.posts
        all == Concat(apiTask.posts)
    IN  /\ \A i \in 1..Len(posts) : Len(posts[i]) <= apiTask.chunkSize
        /\ \A i \in 1..(Len(posts) - 1) : Len(posts[i]) = apiTask.chunkSize
        /\ Len(all) <= Len(apiTask.calls)
        /\ all = SubSeq(apiTask.calls, 1, Len(all))
        /\ apiTask.pc = "resolved" => all = apiTask.calls
        /\ (apiTask.pc = "resolved" /\ apiTask.calls = <<1, 2, 3>>
              /\ apiTask.chunkSize = 2) =>
             posts = << <<1, 2>>, <<3>> >>

\* api([c1, c2, c3]) with chunkSize 2 has posted [c1, c2] and [c3] and resolved.
TwoChunksPosted ==
  /\ apiTask.pc = "resolved"
  /\ apiTask.chunkFixed
  /\ apiTask.posts = << <<1, 2>>, <<3>> >>

\* C3: the apiEndpoint property is the full endpoint string with the embedded
\* token: for a Connection with a token it is a string that starts with
\* 'https://' + token + '@', in every state.
ApiEndpointHoldsToken ==
  Truthy(token) =>
    /\ apiEndpoint.type = "string"
    /\ StartsWith(apiEndpoint.val, <<"https://", token, "@">>)

\* C4: the clock-delta estimate is the mean of the samples.  After K >= 1 accepted
\* responses, in whatever order they came, weight is K and deltaTime is
\* (s_1 + ... + s_K) / K; before any, deltaTime is 0.
IncrementalMean ==
  /\ deltaTime.type = "number"
  /\ _deltaTime.weight = samples.count
  /\ samples.count = 0 => deltaTime.val = <<0, 1>>
  /\ samples.count >= 1 => deltaTime.val = Rat(samples.sum, samples.count)

\* Three samples have been applied and their mean is -2/3.
ThreeSamplesAveraged ==
  /\ samples.count = 3
  /\ _deltaTime.weight = 3
  /\ deltaTime.val = <<-2, 3>>

\* C10: missing meta.  A get() or post() whose response body lacks meta or
\* meta.serverTime rejects with one of the two errors of _handleMeta, and the step
\* in which it does leaves value and weight of the estimate as they were.
MissingMetaKeepsEstimate ==
  /\ []((/\ lastDone.kind \in {"get", "post"}
          /\ lastDone.response.ok
          /\ (~lastDone.response.hasMeta \/ ~lastDone.response.hasServerTime))
         => lastDone.error \in MissingMeta)
  /\ [][(NDone' = NDone + 1 /\ lastDone'.error \in MissingMeta)
          => _deltaTime' = _deltaTime]_vars

\* A get() has been rejected for a missing meta.serverTime after two samples were
\* applied, and the estimate still holds them.
MissingMetaAfterSamples ==
  /\ lastDone.kind = "get"
  /\ lastDone.error = NoServerTime
  /\ _deltaTime.weight = 2
  /\ _deltaTime.value # <<0, 1>>

\* C11: all-or-nothing batched call.  The step in which the post of a chunk fails
\* (transport error or missing meta) rejects api() and dispatches nothing; a
\* rejected api() returns no results, whatever it gathered from the chunks
\* before, has no request in flight and dispatches none later.
AllOrNothing ==
  /\ [](apiTask.pc = "rejected" =>
          /\ ApiReturned = Null
          /\ apiTask.error # NoError
          /\ ApiInFlight = 0)
  /\ [][(apiTask'.answered = apiTask.answered + 1 /\ lastDone'.error # NoError) =>
          /\ apiTask'.pc = "rejected"
          /\ apiTask'.posts = apiTask.posts]_vars
  /\ [][apiTask.pc = "rejected" => apiTask' = apiTask]_vars

\* The post of the second chunk has failed after the first brought two results:
\* api() is rejected and holds results it does not return.
SecondChunkFailed ==
  /\ apiTask.pc = "rejected"
  /\ apiTask.answered = 2
  /\ Len(apiTask.res) = 2
  /\ Len(apiTask.posts) = 2

\* C12: sequential chunk dispatch.  At most one chunk request of api() is in
\* flight, and one is exactly while api() awaits; a chunk is dispatched only in a
\* step that leaves every chunk before it answered and, api() not being rejected,
\* its results gathered.
SequentialDispatch ==
  /\ [](/\ ApiInFlight \in {0, 1}
        /\ ApiInFlight = 1 <=> apiTask.pc = "await")
  /\ [][Len(apiTask'.posts) > Len(apiTask.posts) =>
          /\ Len(apiTask'.posts) = Len(apiTask.posts) + 1
          /\ apiTask'.answered = Len(apiTask.posts)
          /\ apiTask.posts # <<>> =>
                /\ apiTask.pc = "await"
                /\ apiTask'.answered = apiTask.answered + 1
                /\ lastDone'.error = NoError
                /\ Len(apiTask'.res) = Len(apiTask.res) + Len(apiTask.thisBatch)]_vars

\* The second chunk is in flight, the first having been answered.
SecondChunkInFlight ==
  /\ apiTask.pc = "await"
  /\ Len(apiTask.posts) = 2
  /\ apiTask.answered = 1
  /\ Len(apiTask.res) > 0

\* The completed request d was a get() or a post() (those of api() included) whose
\* response carries a meta.serverTime that _handleMeta accepts.
CarriesServerTime(d) ==
  /\ d.kind \in {"get", "post"}
  /\ d.response.ok
  /\ d.response.hasMeta
  /\ d.response.hasServerTime
  /\ d.response.serverTime # 0

\* C15: no lost clock-delta update under concurrency.  With get(), post(), api(),
\* getRaw() and postRaw() in flight at once and completing in any order: value
\* times weight is the sum of the samples applied; each completion of a non-raw
\* request that carries meta.serverTime adds one to weight and its sample to that
\* sum, and every other step (a raw completion, a failed or meta-less response,
\* a dispatch) leaves value and weight as they were.
NoLostUpdate ==
  /\ [](_deltaTime.value[1] * _deltaTime.weight = samples.sum * _deltaTime.value[2])
  /\ [][NDone' = NDone + 1 =>
          IF CarriesServerTime(lastDone')
          THEN /\ _deltaTime'.weight = _deltaTime.weight + 1
               /\ samples'.count = samples.count + 1
          ELSE /\ _deltaTime' = _deltaTime
               /\ samples' = samples]_vars
  /\ [][(NDone' = NDone + 1 /\ lastDone'.kind \in {"getRaw", "postRaw"}) =>
          _deltaTime' = _deltaTime]_vars
  /\ [][NDone' = NDone => _deltaTime' = _deltaTime]_vars

\* A get() has completed with a sample while a chunk request of api() was in
\* flight, after an earlier chunk had brought a sample.
SampleBetweenChunks ==
  /\ lastDone.kind = "get"
  /\ lastDone.error = NoError
  /\ apiTask.pc = "await"
  /\ apiTask.answered >= 1
  /\ _deltaTime.weight = 2

\* The least number of chunks of at most chunkSize calls that hold n calls:
\* ceil(n / chunkSize).
Ceil(n, chunkSize) == (n + chunkSize - 1) \div chunkSize

\* C16: one post per chunk and nothing more.  No post of api() has an empty
\* body, and an api() of N calls that ends with options.chunkSize not assigned
\* during the call has issued ceil(N / chunkSize) posts: none for N = 0,
\* N / chunkSize for a multiple of chunkSize.
OnePostPerChunk ==
  /\ \A i \in 1..Len(apiTask.posts) : apiTask.posts[i] # <<>>
  /\ (apiTask.pc = "resolved" /\ apiTask.chunkFixed) =>
       Len(apiTask.posts) = Ceil(Len(apiTask.calls), apiTask.chunkSize)

\* C19: chunkSize assigned during an api() call.  Whether or not options.chunkSize
\* was assigned while api() awaited a chunk response, an api() that resolves has
\* submitted every call in exactly one post, in order, and resolves with the N
\* results in the order of the calls.
ChunkSizeChangeSafe ==
  apiTask.pc = "resolved" =>
    /\ Concat(apiTask.posts) = apiTask.calls
    /\ ApiReturned = Some(ResultsOf(apiTask.calls))

(***************************************************************************)
(* Service                                                                 *)
(***************************************************************************)
InvalidData == "Invalid data from service/info"
TypeError == "TypeError"

\* A service-info document is a function from the names of its fields to their
\* values; {} is the function of no field.
EmptyObject == <<>>

\* An assignment in which the fields of the target prevail.
AssignKeepsTarget(target, source) ==
  [f \in DOMAIN target \cup DOMAIN source |->
     IF f \in DOMAIN target THEN target[f] ELSE source[f]]

\* Object.assign(target, source)
Assign(target, source) ==
  [f \in DOMAIN target \cup DOMAIN source |->
     IF f \in DOMAIN source THEN source[f] ELSE target[f]]

UrlKeys == {"access", "api", "register"}

\* A cleanup that appends nothing.
CleanedNever(url) == url

\* The cleanup of setServiceInfo: a '/' is appended to a url not finishing by one.
Cleaned(url) == IF Len(url) > 0 /\ url[Len(url)] = "/" THEN url ELSE Append(url, "/")

\* A setServiceInfo that assigns _pryvServiceInfo before it validates the name.
setServiceInfoAssignsFirst(cache, serviceInfo) ==
  IF "name" \notin DOMAIN serviceInfo \/ ~Truthy(serviceInfo["name"])
  THEN [error |-> InvalidData, cache |-> Some(serviceInfo)]
  ELSE IF ~(UrlKeys \subseteq DOMAIN serviceInfo)
  THEN [error |-> TypeError, cache |-> cache]
  ELSE [error |-> NoError,
        cache |-> Some([f \in DOMAIN serviceInfo |->
                          IF f \in UrlKeys THEN Cleaned(serviceInfo[f])
                          ELSE serviceInfo[f]])]

\* setServiceInfo(serviceInfo) with _pryvServiceInfo = cache: the error thrown, if
\* any, and _pryvServiceInfo afterwards.  Reading .slice of an absent field throws.
setServiceInfo(cache, serviceInfo) ==
  IF "name" \notin DOMAIN serviceInfo \/ ~Truthy(serviceInfo["name"])
  THEN [error |-> InvalidData, cache |-> cache]
  ELSE IF ~(UrlKeys \subseteq DOMAIN serviceInfo)
  THEN [error |-> TypeError, cache |-> cache]
  ELSE [error |-> NoError,
        cache |-> Some([f \in DOMAIN serviceInfo |->
                          IF f \in UrlKeys THEN Cleaned(serviceInfo[f])
                          ELSE serviceInfo[f]])]

\* A condition that ignores forceFetch.
InfoIgnoresForce(forceFetch, cache) == cache = Null

\* The condition of info(): fetch when forced or when nothing is cached.
InfoNeedsFetch(forceFetch, cache) == forceFetch \/ cache = Null

\* info() awaits a discovery GET: it fetches, and a url was given.
InfoAwaitsGet(forceFetch, cache) ==
  InfoNeedsFetch(forceFetch, cache) /\ _pryvServiceInfoUrl # <<>>

\* info() from Object.assign on: the merge, setServiceInfo, return _pryvServiceInfo.
InfoMerge(cache, baseServiceInfo) ==
  LET out == setServiceInfo(cache, Assign(baseServiceInfo, _pryvServiceCustomizations))
  IN  [error |-> out.error, cache |-> out.cache,
       value |-> IF out.error = NoError THEN out.cache ELSE Null,
       wrote |-> out.error = NoError]

\* info(forceFetch) when it awaits nothing.
InfoNow(forceFetch, cache) ==
  IF InfoNeedsFetch(forceFetch, cache)
  THEN InfoMerge(cache, EmptyObject)
  ELSE [error |-> NoError, cache |-> cache, value |-> cache, wrote |-> FALSE]

\* info() once its discovery GET has completed with `response`.
InfoAfterGet(cache, response) ==
  IF ~response.ok
  THEN [error |-> TransportError, cache |-> cache, value |-> Null, wrote |-> FALSE]
  ELSE InfoMerge(cache, response.body)

\* infoSync()
infoSync == _pryvServiceInfo

\* String.prototype.replace(pattern, replacement) with a string pattern: the first
\* occurrence is replaced.
Replace(s, pattern, replacement) ==
  LET at == {i \in 1..Len(s) : s[i] = pattern}
  IN  IF at = {} THEN s
      ELSE [s EXCEPT ![CHOOSE i \in at : \A j \in at : i <= j] = replacement]

\* A buildAPIEndpoint that drops the token.
buildAPIEndpointNoToken(serviceInfo, username, tok) ==
  buildPryvApiEndPoint([endpoint |-> Replace(serviceInfo["api"], "{username}", username),
                        token |-> Undefined])

\* Service.buildAPIEndpoint(serviceInfo, username, token)
buildAPIEndpoint(serviceInfo, username, tok) ==
  buildPryvApiEndPoint([endpoint |-> Replace(serviceInfo["api"], "{username}", username),
                        token |-> tok])

(***************************************************************************)
(* The environment of a Service: the discovery endpoint, the login         *)
(* endpoint, the callers.                                                  *)
(***************************************************************************)
ServiceInfoUrl == <<"https://", "reg.x.io", "/service/info">>

DocX ==
  [f \in {"name", "access", "api", "register"} |->
     CASE f = "name" -> "x"
       [] f = "access" -> <<"https://", "x.io", "/access">>
       [] f = "api" -> <<"https://", "{username}", ".x.io">>
       [] f = "register" -> <<"https://", "x.io", "/reg">>]

DocY ==
  [f \in {"name", "access", "api", "register"} |->
     CASE f = "name" -> "y"
       [] f = "access" -> <<"https://", "y.io", "/access", "/">>
       [] f = "api" -> <<"https://", "{username}", ".y.io", "/">>
       [] f = "register" -> <<"https://", "y.io", "/reg", "/">>]

Without(doc, field) == [f \in DOMAIN doc \ {field} |-> doc[f]]

Documents == {DocX, DocY, Without(DocX, "name"), Without(DocY, "register")}

DiscoveryResponses ==
  {[ok |-> FALSE, body |-> EmptyObject]} \cup {[ok |-> TRUE, body |-> d] : d \in Documents}

Customizations == {EmptyObject, [f \in {"name"} |-> "custom"], DocY}

Usernames == {"tom", "ann"}

OriginHeaders == {<<>>, <<"https://", "app.example">>}

\* The login endpoint's outcomes: a 2xx body with or without a token, an error
\* response with or without error.message, no response at all.
LoginResponses ==
  {[ok |-> TRUE, hasResponse |-> TRUE, token |-> t, message |-> Undefined] :
     t \in {Undefined, "", "abc"}}
  \cup {[ok |-> FALSE, hasResponse |-> TRUE, token |-> Undefined, message |-> m] :
          m \in {Undefined, "", "Invalid credentials"}}
  \cup {[ok |-> FALSE, hasResponse |-> FALSE, token |-> Undefined, message |-> Undefined]}

(***************************************************************************)
(* Service.info()                                                          *)
(***************************************************************************)
\* base: the baseServiceInfo the invocation merged the customizations into, if it
\* came to that.  The fields from gets to base are history.
NoInfoCall ==
  [pc |-> "idle", forceFetch |-> FALSE, gets |-> 0, startNull |-> FALSE,
   sequential |-> FALSE, writesAtStart |-> 0, writesAtEnd |-> 0,
   base |-> Null, value |-> Null, error |-> NoError]

Completed(c) == c.pc \in {"resolved", "rejected"}

\* The record of an invocation that has returned or thrown.
Returned(c, out, writes) ==
  [c EXCEPT !.pc = IF out.error = NoError THEN "resolved" ELSE "rejected",
            !.error = out.error, !.value = out.value, !.writesAtEnd = writes]

Wrote(out) == IF out.wrote THEN 1 ELSE 0

\* The k-th invocation of info(forceFetch) by a caller: it runs to its await of the
\* discovery GET, or, awaiting nothing, to its end.
InfoCall(k, forceFetch) ==
  /\ infoCalls[k].pc = "idle"
  /\ \A j \in 1..(k - 1) : infoCalls[j].pc # "idle"
  /\ LET c == [NoInfoCall EXCEPT
                 !.forceFetch = forceFetch,
                 !.startNull = (_pryvServiceInfo = Null),
                 !.sequential = (\A j \in 1..(k - 1) : Completed(infoCalls[j])),
                 !.writesAtStart = cacheWrites]
     IN  IF InfoAwaitsGet(forceFetch, _pryvServiceInfo)
         THEN /\ infoCalls' = [infoCalls EXCEPT ![k] = [c EXCEPT !.pc = "fetching", !.gets = 1]]
              /\ UNCHANGED <<_pryvServiceInfo, cacheWrites>>
         ELSE LET out == InfoNow(forceFetch, _pryvServiceInfo)
                  merged == IF InfoNeedsFetch(forceFetch, _pryvServiceInfo)
                            THEN [c EXCEPT !.base = Some(EmptyObject)]
                            ELSE c
              IN  /\ _pryvServiceInfo' = out.cache
                  /\ cacheWrites' = cacheWrites + Wrote(out)
                  /\ infoCalls' = [infoCalls EXCEPT
                                     ![k] = Returned(merged, out, cacheWrites + Wrote(out))]
  /\ UNCHANGED <<_pryvServiceInfoUrl, _pryvServiceCustomizations, loginTask>>
  /\ UNCHANGED assetVars
  /\ UNCHANGED connVars

\* The discovery GET of the k-th invocation completes.
InfoFetched(k, response) ==
  /\ infoCalls[k].pc = "fetching"
  /\ LET out == InfoAfterGet(_pryvServiceInfo, response)
         c == [infoCalls[k] EXCEPT
                 !.base = IF response.ok THEN Some(response.body) ELSE Null]
     IN  /\ _pryvServiceInfo' = out.cache
         /\ cacheWrites' = cacheWrites + Wrote(out)
         /\ infoCalls' = [infoCalls EXCEPT ![k] = Returned(c, out, cacheWrites + Wrote(out))]
  /\ UNCHANGED <<_pryvServiceInfoUrl, _pryvServiceCustomizations, loginTask>>
  /\ UNCHANGED assetVars
  /\ UNCHANGED connVars

(***************************************************************************)
(* Service.assets()                                                        *)
(***************************************************************************)
SetupError == "SetupError"

\* A condition that ignores forceFetch.
AssetsIgnoresForce(forceFetch, assets) == assets = Null

\* The condition of assets(): set up unless not forced and a bundle is cached.
AssetsNeedsSetup(forceFetch, assets) == ~(~forceFetch /\ assets # Null)

\* serviceInfo.assets && serviceInfo.assets.definitions
HasDefinitions(serviceInfo) ==
  /\ "assets" \in DOMAIN serviceInfo
  /\ "definitions" \in DOMAIN serviceInfo["assets"]

\* What Assets.setup(definitions) resolves with: a new object at each
\* invocation, the n-th being told from the others by n.  The collaborator
\* (ServiceAssets.js) is not in src/.
Bundle(definitions, n) == [definitions |-> definitions, setup |-> n]

\* defined: the service info the invocation got from info() had
\* assets.definitions.  The fields setups, sequential and defined are history.
NoAssetsCall ==
  [pc |-> "idle", forceFetch |-> FALSE, setups |-> 0, setup |-> 0, sequential |-> FALSE,
   definitions |-> <<>>, defined |-> FALSE, value |-> Null, error |-> NoError]

\* assets() once info() has resolved with serviceInfo: without definitions it
\* returns null, with them it awaits Assets.setup, the n-th invocation of it.
AssetsAfterInfo(c, serviceInfo, n) ==
  IF ~HasDefinitions(serviceInfo)
  THEN [c EXCEPT !.pc = "resolved", !.value = Null]
  ELSE [c EXCEPT !.pc = "setup", !.defined = TRUE, !.setups = @ + 1,
                 !.setup = n,
                 !.definitions = serviceInfo["assets"]["definitions"]]

\* The effect on the Service of a step of the k-th assets() that ran info() with
\* the outcome out and went on to c.
AssetsStep(k, c, out) ==
  /\ assetsCalls' = [assetsCalls EXCEPT ![k] = c]
  /\ _pryvServiceInfo' = out.cache
  /\ cacheWrites' = cacheWrites + Wrote(out)
  /\ setups' = IF c.pc = "setup" THEN setups + 1 ELSE setups
  /\ UNCHANGED <<_pryvServiceInfoUrl, _pryvServiceCustomizations, infoCalls, loginTask,
                 _assets>>
  /\ UNCHANGED connVars

\* The k-th invocation of assets(forceFetch) by a caller: it returns the cached
\* bundle, or runs to the await of the discovery GET of info(), of Assets.setup,
\* or to its end.
AssetsCall(k, forceFetch) ==
  /\ assetsCalls[k].pc = "idle"
  /\ \A j \in 1..(k - 1) : assetsCalls[j].pc # "idle"
  /\ LET c == [NoAssetsCall EXCEPT
                 !.forceFetch = forceFetch,
                 !.sequential = (\A j \in 1..(k - 1) :
                                   assetsCalls[j].pc \in {"resolved", "rejected"})]
         kept == [error |-> NoError, cache |-> _pryvServiceInfo,
                  value |-> _pryvServiceInfo, wrote |-> FALSE]
     IN  IF ~AssetsNeedsSetup(forceFetch, _assets)
         THEN AssetsStep(k, [c EXCEPT !.pc = "resolved", !.value = _assets], kept)
         ELSE IF InfoAwaitsGet(FALSE, _pryvServiceInfo)
         THEN AssetsStep(k, [c EXCEPT !.pc = "fetching"], kept)
         ELSE LET out == InfoNow(FALSE, _pryvServiceInfo)
              IN  IF out.error # NoError
                  THEN AssetsStep(k, [c EXCEPT !.pc = "rejected", !.error = out.error], out)
                  ELSE AssetsStep(k, AssetsAfterInfo(c, out.value[1], setups + 1), out)

\* The discovery GET of the info() awaited by the k-th assets() completes.
AssetsFetched(k, response) ==
  /\ assetsCalls[k].pc = "fetching"
  /\ LET out == InfoAfterGet(_pryvServiceInfo, response)
     IN  IF out.error # NoError
         THEN AssetsStep(k, [assetsCalls[k] EXCEPT !.pc = "rejected", !.error = out.error],
                         out)
         ELSE AssetsStep(k, AssetsAfterInfo(assetsCalls[k], out.value[1], setups + 1), out)

\* Assets.setup of the k-th assets() completes: its bundle is cached and returned,
\* or its rejection rejects assets().
AssetsSetupDone(k, ok) ==
  /\ assetsCalls[k].pc = "setup"
  /\ LET bundle == Bundle(assetsCalls[k].definitions, assetsCalls[k].setup)
     IN  IF ok
         THEN /\ _assets' = Some(bundle)
              /\ assetsCalls' = [assetsCalls EXCEPT
                                   ![k] = [@ EXCEPT !.pc = "resolved", !.value = Some(bundle)]]
         ELSE /\ _assets' = _assets
              /\ assetsCalls' = [assetsCalls EXCEPT
                                   ![k] = [@ EXCEPT !.pc = "rejected", !.error = SetupError]]
  /\ UNCHANGED <<_pryvServiceInfoUrl, _pryvServiceCustomizations, _pryvServiceInfo,
                 infoCalls, loginTask, cacheWrites, setups>>
  /\ UNCHANGED connVars

\* Service-info documents with and without assets.definitions.
WithAssets(doc, assets) ==
  [f \in DOMAIN doc \cup {"assets"} |-> IF f = "assets" THEN assets ELSE doc[f]]

DocA == WithAssets(DocY, [f \in {"definitions"} |-> <<"https://", "y.io", "/assets">>])

DocB == WithAssets(DocX, [f \in {"definitions"} |-> <<"https://", "x.io", "/assets">>])

AssetsDocuments == {DocA, DocB, WithAssets(DocY, EmptyObject)}

AssetsResponses ==
  {[ok |-> FALSE, body |-> EmptyObject]} \cup {[ok |-> TRUE, body |-> d] : d \in AssetsDocuments}

(***************************************************************************)
(* Service.login()                                                         *)
(***************************************************************************)
NoLogin ==
  [pc |-> "idle", username |-> "", originHeader |-> <<>>, stage |-> 0,
   postUrl |-> <<>>, response |-> Null, value |-> Null, error |-> NoError]

\* The login POST is sent to apiEndPoint + 'auth/login'.
LoginPost(l, serviceInfo) ==
  [l EXCEPT !.pc = "post",
            !.postUrl = buildAPIEndpoint(serviceInfo, l.username, Undefined)
                          \o <<"auth/login">>]

LoginRejected(l, error) == [l EXCEPT !.pc = "rejected", !.error = error]

\* login() from `await this.apiEndpointFor(username)` on, to its next await.
LoginEndpoint(l, cache) ==
  IF InfoAwaitsGet(FALSE, cache)
  THEN [login |-> [l EXCEPT !.pc = "fetch", !.stage = 2], cache |-> cache, wrote |-> FALSE]
  ELSE LET out == InfoNow(FALSE, cache)
       IN  [login |-> IF out.error # NoError THEN LoginRejected(l, out.error)
                      ELSE LoginPost(l, out.value[1]),
            cache |-> out.cache, wrote |-> out.wrote]

\* login() from its invocation to its first await: the origin header defaults to
\* (await this.info()).register.
LoginBegin(l, cache) ==
  IF l.originHeader # <<>>
  THEN LoginEndpoint(l, cache)
  ELSE IF InfoAwaitsGet(FALSE, cache)
  THEN [login |-> [l EXCEPT !.pc = "fetch", !.stage = 1], cache |-> cache, wrote |-> FALSE]
  ELSE LET out == InfoNow(FALSE, cache)
       IN  IF out.error # NoError
           THEN [login |-> LoginRejected(l, out.error), cache |-> out.cache,
                 wrote |-> out.wrote]
           ELSE LET then == LoginEndpoint(
                              [l EXCEPT !.originHeader = out.value[1]["register"]],
                              out.cache)
                IN  [then EXCEPT !.wrote = out.wrote \/ then.wrote]

\* login() once the discovery GET of its info() has completed.
LoginAfterGet(l, cache, response) ==
  LET out == InfoAfterGet(cache, response)
  IN  IF out.error # NoError
      THEN [login |-> LoginRejected(l, out.error), cache |-> out.cache, wrote |-> out.wrote]
      ELSE IF l.stage = 1
      THEN LET then == LoginEndpoint(
                         [l EXCEPT !.originHeader = out.value[1]["register"]], out.cache)
           IN  [then EXCEPT !.wrote = out.wrote \/ then.wrote]
      ELSE [login |-> LoginPost(l, out.value[1]), cache |-> out.cache, wrote |-> out.wrote]

\* A catch block that throws an error of its own wording.
LoginCatchGeneric(l, hasResponse, message) ==
  IF hasResponse /\ Truthy(message)
  THEN [l EXCEPT !.pc = "rejected", !.error = "Invalid login"]
  ELSE [l EXCEPT !.pc = "resolved", !.value = Null]

\* The catch block of login(): an error that carries response.body.error.message
\* is thrown again with that message; after any other the function ends, and the
\* promise resolves with undefined.
LoginCatch(l, hasResponse, message) ==
  IF hasResponse /\ Truthy(message)
  THEN [l EXCEPT !.pc = "rejected", !.error = message]
  ELSE [l EXCEPT !.pc = "resolved", !.value = Null]

\* login() once the login POST has completed: the try block and its catch.  The
\* error thrown for a body without token has no response.
LoginAfterPost(l, cache, response) ==
  LET got == [l EXCEPT !.response = Some(response)]
  IN  IF ~response.ok
      THEN LoginCatch(got, response.hasResponse, response.message)
      ELSE IF ~Truthy(response.token)
      THEN LoginCatch(got, FALSE, Undefined)
      ELSE [got EXCEPT !.pc = "resolved",
                       !.value = Some(Connection(
                         buildAPIEndpoint(InfoNow(FALSE, cache).value[1],
                                          l.username, response.token)))]

LoginStep(step) ==
  /\ loginTask' = step.login
  /\ _pryvServiceInfo' = step.cache
  /\ cacheWrites' = cacheWrites + Wrote(step)
  /\ UNCHANGED <<_pryvServiceInfoUrl, _pryvServiceCustomizations, infoCalls>>
  /\ UNCHANGED assetVars
  /\ UNCHANGED connVars

\* login(username, password, appId, originHeader) is invoked.
LoginCall(username, originHeader) ==
  /\ loginTask.pc = "idle"
  /\ LoginStep(LoginBegin([NoLogin EXCEPT !.username = username,
                                          !.originHeader = originHeader],
                          _pryvServiceInfo))

\* The discovery GET awaited by login() completes.
LoginFetched(response) ==
  /\ loginTask.pc = "fetch"
  /\ LoginStep(LoginAfterGet(loginTask, _pryvServiceInfo, response))

\* The login POST completes.
LoginPosted(response) ==
  /\ loginTask.pc = "post"
  /\ loginTask' = LoginAfterPost(loginTask, _pryvServiceInfo, response)
  /\ UNCHANGED <<_pryvServiceInfoUrl, _pryvServiceCustomizations, _pryvServiceInfo,
                 infoCalls, cacheWrites>>
  /\ UNCHANGED assetVars
  /\ UNCHANGED connVars

(***************************************************************************)
(* Properties of Service.                                                  *)
(***************************************************************************)
\* What info() caches for a base document: the customizations merged into it,
\* the urls cleaned.
Cached(base) == setServiceInfo(Null, Assign(base, _pryvServiceCustomizations)).cache

\* The first two invocations of info() on a Service with a discovery url were not
\* forced, the first resolved and the second was invoked after that.
InfoTwice ==
  /\ _pryvServiceInfoUrl # <<>>
  /\ infoCalls[1].pc = "resolved"
  /\ ~infoCalls[1].forceFetch
  /\ Completed(infoCalls[2])
  /\ ~infoCalls[2].forceFetch
  /\ infoCalls[2].sequential

\* The third invocation was info(true), invoked after the second had returned.
InfoThenForced ==
  /\ InfoTwice
  /\ Completed(infoCalls[3])
  /\ infoCalls[3].forceFetch
  /\ infoCalls[3].sequential

\* C5: service-info caching.  Two successive info() without forceFetch issue one
\* discovery GET between them and return the same cached value, the second
\* leaving the cache alone; a following info(true) issues one GET more and, when
\* it resolves, has assigned the cache the document it fetched (customizations
\* merged, urls cleaned) and returns it.
InfoCaching ==
  /\ InfoTwice =>
       /\ infoCalls[1].gets + infoCalls[2].gets = 1
       /\ infoCalls[2].pc = "resolved"
       /\ infoCalls[2].value # Null
       /\ infoCalls[2].value = infoCalls[1].value
       /\ infoCalls[2].writesAtEnd = infoCalls[1].writesAtEnd
  /\ InfoThenForced =>
       /\ infoCalls[3].gets = 1
       /\ infoCalls[3].pc = "resolved" =>
            /\ infoCalls[3].base # Null
            /\ infoCalls[3].value = Cached(infoCalls[3].base[1])
            /\ infoCalls[3].writesAtEnd > infoCalls[3].writesAtStart
            /\ cacheWrites = infoCalls[3].writesAtEnd =>
                 _pryvServiceInfo = infoCalls[3].value

\* info(), info(), info(true) have resolved one after the other, and the forced
\* one has replaced the cached document by another.
InfoRefreshed ==
  /\ InfoThenForced
  /\ infoCalls[3].pc = "resolved"
  /\ infoCalls[3].value # infoCalls[1].value
  /\ _pryvServiceInfo = infoCalls[3].value

\* C6: service-info validation failure.  An info() or info(true) whose document
\* (the base document with the customizations merged) has no name rejects with
\* 'Invalid data from service/info', and the step in which it does leaves what
\* infoSync() returns as it was: null before any success, the cached document
\* after a failed forced refresh.
InvalidInfoKeepsCache ==
  /\ [](\A k \in 1..MaxInfoCalls :
          (/\ Completed(infoCalls[k])
           /\ infoCalls[k].base # Null
           /\ "name" \notin DOMAIN Assign(infoCalls[k].base[1], _pryvServiceCustomizations))
          => /\ infoCalls[k].pc = "rejected"
             /\ infoCalls[k].error = InvalidData
             /\ infoCalls[k].value = Null)
  /\ [][\A k \in 1..MaxInfoCalls :
          (/\ ~Completed(infoCalls[k])
           /\ Completed(infoCalls'[k])
           /\ infoCalls'[k].error = InvalidData)
          => infoSync' = infoSync]_vars

\* A first info() failed for a missing name and left null, a second one
\* resolved, and a forced third failed for a missing name and left the cached
\* document of the second.
InvalidRefreshKeptCache ==
  /\ infoCalls[1].error = InvalidData
  /\ infoCalls[1].writesAtEnd = 0
  /\ infoCalls[2].pc = "resolved"
  /\ infoCalls[3].forceFetch
  /\ infoCalls[3].error = InvalidData
  /\ infoSync # Null
  /\ infoSync = infoCalls[2].value

\* The value of field f that info() caches: that of the customizations when they
\* have the field, that of the fetched document otherwise.
Preferred(base, f) ==
  IF f \in DOMAIN _pryvServiceCustomizations
  THEN _pryvServiceCustomizations[f]
  ELSE base[f]

\* C13 as stated: every field of the document a fetching info() returns has the
\* value of the customizations when they have the field, and the value of the
\* fetched document otherwise.
CustomizationPrecedenceVerbatim ==
  \A k \in 1..MaxInfoCalls :
    (infoCalls[k].pc = "resolved" /\ infoCalls[k].base # Null) =>
      \A f \in DOMAIN infoCalls[k].value[1] :
        infoCalls[k].value[1][f] = Preferred(infoCalls[k].base[1], f)

\* C13: customization precedence in info().  The document a fetching info()
\* returns has the fields of the fetched document and of the customizations;
\* each field has the value of the customizations when they have it and that of
\* the fetched document otherwise, with a '/' appended to access, api and
\* register when they do not end with one; the step in which it resolves caches
\* that document.  Without a discovery url no GET is issued and the document is
\* built from the customizations alone.
CustomizationPrecedence ==
  /\ [](\A k \in 1..MaxInfoCalls :
          /\ (infoCalls[k].pc = "resolved" /\ infoCalls[k].base # Null) =>
               LET base == infoCalls[k].base[1]
                   doc == infoCalls[k].value[1]
               IN  /\ DOMAIN doc = DOMAIN base \cup DOMAIN _pryvServiceCustomizations
                   /\ \A f \in DOMAIN doc :
                        doc[f] = IF f \in UrlKeys
                                 THEN WithTrailingSlash(Preferred(base, f))
                                 ELSE Preferred(base, f)
          /\ _pryvServiceInfoUrl = <<>> =>
               /\ infoCalls[k].gets = 0
               /\ infoCalls[k].base \in {Null, Some(EmptyObject)})
  /\ [][\A k \in 1..MaxInfoCalls :
          (/\ infoCalls[k].pc # "resolved"
           /\ infoCalls'[k].pc = "resolved"
           /\ infoCalls'[k].base # Null)
          => _pryvServiceInfo' = infoCalls'[k].value]_vars

\* An info() has fetched a document named "x" and resolved with the name of the
\* customizations, "custom", and the other fields of the fetched document.
CustomizedInfoResolved ==
  \E k \in 1..MaxInfoCalls :
    /\ infoCalls[k].pc = "resolved"
    /\ infoCalls[k].gets = 1
    /\ infoCalls[k].base = Some(DocX)
    /\ infoCalls[k].value[1]["name"] = "custom"
    /\ infoCalls[k].value[1]["api"] = <<"https://", "{username}", ".x.io", "/">>

\* The first two invocations of assets() were not forced, the first resolved
\* with a bundle and the second was invoked after that.
AssetsTwice ==
  /\ assetsCalls[1].pc = "resolved"
  /\ assetsCalls[1].value # Null
  /\ ~assetsCalls[1].forceFetch
  /\ assetsCalls[2].pc \in {"resolved", "rejected"}
  /\ ~assetsCalls[2].forceFetch
  /\ assetsCalls[2].sequential

\* The third invocation was assets(true), invoked after the second had returned.
AssetsThenForced ==
  /\ AssetsTwice
  /\ assetsCalls[3].pc \in {"resolved", "rejected"}
  /\ assetsCalls[3].forceFetch
  /\ assetsCalls[3].sequential

\* C14: asset caching.  On a Service whose service info has assets.definitions,
\* two successive assets() without forceFetch invoke Assets.setup once between
\* them and return the same bundle; a following assets(true) invokes Assets.setup
\* once more and, when it resolves, returns another bundle; the step in which an
\* assets() resolves after its Assets.setup caches the bundle it returns.
AssetsCaching ==
  /\ [](AssetsTwice =>
          /\ assetsCalls[1].setups + assetsCalls[2].setups = 1
          /\ assetsCalls[2].pc = "resolved"
          /\ assetsCalls[2].value = assetsCalls[1].value)
  /\ [](AssetsThenForced =>
          /\ assetsCalls[3].defined
          /\ assetsCalls[3].setups = 1
          /\ setups >= 2
          /\ assetsCalls[3].pc = "resolved" =>
                /\ assetsCalls[3].value # Null
                /\ assetsCalls[3].value # assetsCalls[1].value)
  /\ [][\A k \in 1..MaxAssetsCalls :
          (assetsCalls[k].pc = "setup" /\ assetsCalls'[k].pc = "resolved") =>
            /\ _assets' = assetsCalls'[k].value
            /\ _assets' # _assets]_vars

\* assets(), assets(), assets(true) have resolved one after the other, and the
\* bundle of the forced one is cached in place of the first.
AssetsRefreshed ==
  /\ AssetsThenForced
  /\ assetsCalls[3].pc = "resolved"
  /\ setups = 2
  /\ _assets = assetsCalls[3].value
  /\ _assets # assetsCalls[1].value

\* A document that has a name and whose access, api and register end with '/'.
Normalized(doc) ==
  /\ "name" \in DOMAIN doc
  /\ Truthy(doc["name"])
  /\ \A f \in UrlKeys :
       /\ f \in DOMAIN doc
       /\ Len(doc[f]) > 0
       /\ doc[f][Len(doc[f])] = "/"

\* C18: cache invariant of Service.  Under info(), info(true), assets() and
\* login(), successful or failed, the cached service info is null or a document
\* that has a name and whose access, api and register end with '/'; and
\* setServiceInfo applied to a document it has normalized accepts it and leaves
\* it as it is.
CacheInvariant ==
  /\ _pryvServiceInfo # Null =>
       /\ Normalized(_pryvServiceInfo[1])
       /\ setServiceInfo(Null, _pryvServiceInfo[1]) =
            [error |-> NoError, cache |-> _pryvServiceInfo]
  /\ \A d \in Documents \cup AssetsDocuments :
       LET once == setServiceInfo(Null, d)
       IN  once.error = NoError =>
             /\ Normalized(once.cache[1])
             /\ setServiceInfo(Null, once.cache[1]) = once

\* A document fetched without trailing slashes is cached with them, after a
\* login() that resolved, an assets() that resolved and an info() that failed.
CacheNormalized ==
  /\ _pryvServiceInfo # Null
  /\ _pryvServiceInfo[1]["name"] = "x"
  /\ _pryvServiceInfo[1]["api"] = <<"https://", "{username}", ".x.io", "/">>
  /\ loginTask.pc = "resolved"
  /\ assetsCalls[1].pc = "resolved"
  /\ infoCalls[1].pc = "rejected"

\* C17: single fetch under overlapping calls.  While every invocation of info()
\* made so far was without forceFetch and none has failed, at most one discovery
\* GET has been issued, and the invocations that have resolved have resolved
\* with the same document.
SingleFetch ==
  (\A k \in 1..MaxInfoCalls : ~infoCalls[k].forceFetch /\ infoCalls[k].pc # "rejected") =>
    /\ \A j, k \in 1..MaxInfoCalls : j # k => infoCalls[j].gets + infoCalls[k].gets <= 1
    /\ \A j, k \in 1..MaxInfoCalls :
         (infoCalls[j].pc = "resolved" /\ infoCalls[k].pc = "resolved") =>
           infoCalls[j].value = infoCalls[k].value

\* C7: login with an ambiguous response.  When the login POST completes with a
\* body without token (and without structured error), login() rejects.
LoginWithoutTokenRejects ==
  (/\ loginTask.response # Null
   /\ loginTask.response[1].ok
   /\ ~Truthy(loginTask.response[1].token))
  => loginTask.pc = "rejected"

\* C8: login with a server-reported error.  When the login POST fails with a
\* response body {error: {message: m}}, m not empty, login() rejects with an
\* error whose message is m, and creates no Connection.
LoginErrorPassedOn ==
  (/\ loginTask.response # Null
   /\ ~loginTask.response[1].ok
   /\ loginTask.response[1].hasResponse
   /\ Truthy(loginTask.response[1].message))
  => /\ loginTask.pc = "rejected"
     /\ loginTask.error = loginTask.response[1].message
     /\ loginTask.value = Null

\* login() has rejected with the message of the server.
LoginErrorRejected ==
  /\ loginTask.pc = "rejected"
  /\ loginTask.response # Null
  /\ loginTask.response[1].message = "Invalid credentials"
  /\ loginTask.error = "Invalid credentials"

\* C9: login success.  The login POST is sent only while service info is cached,
\* to the endpoint of the username without token followed by 'auth/login'; when
\* its body has a token t, login() resolves with a new Connection whose token is
\* t and whose endpoint is the cached api with {username} replaced by the
\* username.
LoginSuccess ==
  /\ [](loginTask.pc = "post" =>
          /\ _pryvServiceInfo # Null
          /\ \A i \in 1..Len(loginTask.postUrl) : loginTask.postUrl[i] # "@")
  /\ []((/\ loginTask.response # Null
         /\ loginTask.response[1].ok
         /\ Truthy(loginTask.response[1].token))
        => /\ loginTask.pc = "resolved"
           /\ loginTask.value # Null
           /\ loginTask.value[1].token = loginTask.response[1].token
           /\ loginTask.value[1]._deltaTime = [value |-> <<0, 1>>, weight |-> 0])
  /\ [][(loginTask.pc # "post" /\ loginTask'.pc = "post") =>
          /\ _pryvServiceInfo' # Null
          /\ loginTask'.postUrl =
               Replace(_pryvServiceInfo'[1]["api"], "{username}", loginTask'.username)
                 \o <<"auth/login">>]_vars
  /\ [][(loginTask.pc = "post" /\ loginTask'.pc = "resolved" /\ loginTask'.value # Null) =>
          loginTask'.value[1].endpoint =
            Replace(_pryvServiceInfo[1]["api"], "{username}", loginTask.username)]_vars

\* C20: login() never completes silently.  A login() that has resolved has
\* resolved with a Connection: after a login POST that failed without a
\* structured error (no response, or a response without error.message) it has
\* rejected.
LoginNeverSilent ==
  loginTask.pc = "resolved" => loginTask.value # Null

\* login('tom', ...) has resolved with a Connection to tom's endpoint with the
\* token of the response.
LoginResolved ==
  /\ loginTask.pc = "resolved"
  /\ loginTask.value # Null
  /\ loginTask.value[1].token = "abc"
  /\ loginTask.value[1].endpoint = <<"https://", "tom", ".x.io", "/">>

(***************************************************************************)
(* The specifications.                                                     *)
(***************************************************************************)
ConnInit(endpoints) ==
  /\ \E e \in endpoints :
       LET c == Connection(e)
       IN  /\ token = c.token
           /\ endpoint = c.endpoint
           /\ options = c.options
           /\ _deltaTime = c._deltaTime
  /\ apiTask = NoApi
  /\ reqs = EmptyBag
  /\ nReq = 0
  /\ lastDone = NoneDone
  /\ samples = [sum |-> 0, count |-> 0]

ServiceInit(urls, customizations) ==
  /\ _pryvServiceInfoUrl \in urls
  /\ _pryvServiceCustomizations \in customizations
  /\ _pryvServiceInfo = Null
  /\ infoCalls = [k \in 1..MaxInfoCalls |-> NoInfoCall]
  /\ loginTask = NoLogin
  /\ cacheWrites = 0
  /\ _assets = Null
  /\ assetsCalls = [k \in 1..MaxAssetsCalls |-> NoAssetsCall]
  /\ setups = 0

\* One Connection, its api() and the assignments to options.chunkSize; a Service
\* stands by.
Init ==
  /\ ConnInit(PryvApiEndpoints)
  /\ ServiceInit({ServiceInfoUrl}, {EmptyObject})

Next ==
  \/ \E calls \in CallArrays, now \in LocalTimes : ApiCall(calls, now)
  \/ \E response \in Responses, now \in LocalTimes : ApiResponse(response, now)
  \/ \E n \in 1..MaxChunk : SetChunkSize(n)

Spec == Init /\ [][Next]_vars

\* One Connection under concurrent requests: api(), get(), post(), getRaw() and
\* postRaw(), the chunk size being assigned before api() is invoked.
NextClock ==
  \/ \E calls \in CallArrays, now \in LocalTimes : ApiCall(calls, now)
  \/ \E response \in Responses, now \in LocalTimes : ApiResponse(response, now)
  \/ \E n \in 1..MaxChunk : apiTask.pc = "idle" /\ SetChunkSize(n)
  \/ \E kind \in Kinds, now \in LocalTimes : Request(kind, now)
  \/ \E r \in BagToSet(reqs), response \in Responses : RequestDone(r, response)

SpecClock == Init /\ [][NextClock]_vars

\* One Service, with or without a discovery url and customizations, under
\* concurrent invocations of info(); a Connection stands by.
InitService ==
  /\ ConnInit({<<"https://", "abc", "@", "tom.x.io", "/">>})
  /\ ServiceInit({<<>>, ServiceInfoUrl}, Customizations)

NextService ==
  \/ \E k \in 1..MaxInfoCalls, forceFetch \in BOOLEAN : InfoCall(k, forceFetch)
  \/ \E k \in 1..MaxInfoCalls, response \in DiscoveryResponses : InfoFetched(k, response)

SpecService == InitService /\ [][NextService]_vars

\* The same Service under login() and one concurrent invocation of info().
NextLogin ==
  \/ \E forceFetch \in BOOLEAN : InfoCall(1, forceFetch)
  \/ \E response \in DiscoveryResponses : InfoFetched(1, response)
  \/ \E username \in Usernames, originHeader \in OriginHeaders :
       LoginCall(username, originHeader)
  \/ \E response \in DiscoveryResponses : LoginFetched(response)
  \/ \E response \in LoginResponses : LoginPosted(response)

SpecLogin == InitService /\ [][NextLogin]_vars

\* One Service under info(), login() and assets() together, one invocation of
\* each; apiEndpointFor() acts on the Service as the info() it awaits.
NextCache ==
  \/ NextLogin
  \/ \E forceFetch \in BOOLEAN : AssetsCall(1, forceFetch)
  \/ \E response \in DiscoveryResponses \cup AssetsResponses : AssetsFetched(1, response)
  \/ \E ok \in BOOLEAN : AssetsSetupDone(1, ok)

SpecCache == InitService /\ [][NextCache]_vars

\* One Service under concurrent invocations of assets().
InitAssets ==
  /\ ConnInit({<<"https://", "abc", "@", "tom.x.io", "/">>})
  /\ ServiceInit({<<>>, ServiceInfoUrl}, {EmptyObject, DocA})

NextAssets ==
  \/ \E k \in 1..MaxAssetsCalls, forceFetch \in BOOLEAN : AssetsCall(k, forceFetch)
  \/ \E k \in 1..MaxAssetsCalls, response \in AssetsResponses : AssetsFetched(k, response)
  \/ \E k \in 1..MaxAssetsCalls, ok \in BOOLEAN : AssetsSetupDone(k, ok)

SpecAssets == InitAssets /\ [][NextAssets]_vars

====
